---- MODULE Spec2Model ----
(***************************************************************************)
(* Lab Pi device agents: the camera poller (services/camera_monitor.py),   *)
(* the sensor poller (services/sensor_reader.py) and the bridge API        *)
(* (services/lab_bridge.py), with the files they share on disk.            *)
(*                                                                         *)
(* Time is counted in whole hours since datetime.min, so that              *)
(* keep_hours * 3600 seconds is keep_hours units and a lookback window of  *)
(* W hours is W units.  File names YYYYMMDD_HHMMSS.jpg are modelled by the *)
(* hour they encode; their lexicographic order is the order of these       *)
(* numbers.  A Python optional value is a sequence of length 0 (None) or 1.*)
(*                                                                         *)
(* The three services are separate systemd units, and the pollers share no *)
(* file.  A run of the model follows one unit (variable service): the      *)
(* camera poller together with the requests for the latest frame, which    *)
(* race with its sweep; the sensor poller; or the bridge serving every     *)
(* endpoint over the files the pollers left on disk.                       *)
(***************************************************************************)
EXTENDS Integers, Sequences, FiniteSets, TLC

\* ----- bounds of the model -----
StartTime == 30        \* the clock when the services start
MaxTicks == 2          \* hours the clock advances
MaxKeepHours == 1      \* camera.keep_hours ranges over 0..MaxKeepHours
MaxRows == 2           \* data rows the reading log can hold (then the disk is full)
MaxAlertLines == 1     \* lines alerts.log can hold
MaxRestarts == 1       \* restarts of the sensor poller process

\* ----- program constants -----
DatetimeMin == 0       \* datetime.min, below which datetime arithmetic overflows
DefaultHours == 24     \* request.args.get("hours", 24, type=int)
PhDefaultMin == 8      \* "ph_range": [4.0, 10.0]; pH is counted in halves of a unit
PhDefaultMax == 20
TempDefaultMin == 15   \* "temp_range": [15.0, 45.0]
TempDefaultMax == 45
SimPhLow == 13         \* random.uniform(6.5, 7.5)
SimPhHigh == 15
SimTempLow == 22       \* random.uniform(22.0, 26.0)
SimTempHigh == 26

VARIABLES
    now, service,
    \* camera poller
    keep_hours, upload, frames, camPc, image_bytes, cutoff, listing, camSnap,
    camSweeps, camWrote, camErr,
    \* sensor poller
    HAS_I2C, cfgSimulate, ph_enabled, temp_enabled, ph_range, temp_range,
    senPc, simulate, bus, busError, ts, ph, temp, csv, alerts, delivery,
    senRows, senErr, restarts,
    \* bridge
    brPc, req, resp, qPath, alertLog

camVars == <<keep_hours, upload, frames, camPc, image_bytes, cutoff, listing,
             camSnap, camSweeps, camWrote, camErr>>
senCfg == <<HAS_I2C, cfgSimulate, ph_enabled, temp_enabled, ph_range, temp_range>>
senVars == <<senPc, simulate, bus, busError, ts, ph, temp, csv, alerts, delivery,
             senRows, senErr, restarts>>
brVars == <<brPc, req, resp, qPath, alertLog>>
vars == <<now, service, camVars, senCfg, senVars, brVars>>

None == <<>>
Some(v) == <<v>>

Max(S) == CHOOSE x \in S : \A y \in S : y <= x

\* ----- the clock -----
Tick ==
    /\ now < StartTime + MaxTicks
    /\ now' = now + 1
    /\ UNCHANGED <<service, camVars, senCfg, senVars, brVars>>

\* ----- camera poller (camera_monitor.py) -----

\* A frame file: its modification time and its bytes.
File(mtime, bytes) == [mtime |-> mtime, bytes |-> bytes]

\* The camera directory with no *.jpg file.
EmptyDir == [n \in {} |-> File(0, 0)]

\* What the last call of cleanup_old_images found: the time and the listed files.
NoSnap == [at |-> 0, files |-> EmptyDir]

\* Directory d with file name written (created or overwritten).
WriteFile(d, name, f) == [n \in DOMAIN d \cup {name} |-> IF n = name THEN f ELSE d[n]]

\* Directory d with file name removed.
RemoveFile(d, name) == [n \in DOMAIN d \ {name} |-> d[n]]

\* capture_frame: JPEG bytes, None (no cv2, device not opened, read or encode
\* failed), or an exception of cv2 or of device_path.replace.
CaptureOutcomes == {"image", "none", "raise"}

capture_frame(outcome) == IF outcome = "image" THEN Some(now) ELSE None

\* save_frame: the file named by the current time, written with the bytes.
save_frame(d, bytes) == WriteFile(d, now, File(now, bytes))

IsOldByName(d, path, cut) == path < cut

\* The test of cleanup_old_images on one path.
IsOld(d, path, cut) == d[path].mtime < cut

\* while True: try: image_bytes = capture_frame(device)
CamCapture ==
    /\ service = "lab-camera" /\ camPc = "capture"
    /\ \E outcome \in CaptureOutcomes :
          /\ image_bytes' = capture_frame(outcome)
          /\ IF outcome = "raise"
                THEN camPc' = "sleep" /\ camErr' = TRUE
                ELSE /\ camErr' = FALSE
                     /\ camPc' = IF image_bytes' # None THEN "save" ELSE "cleanup"
    /\ UNCHANGED <<now, service, keep_hours, upload, frames, cutoff, listing, camSnap,
                   camSweeps, camWrote, senCfg, senVars, brVars>>

CamSaveUncaught ==
    /\ service = "lab-camera" /\ camPc = "save"
    /\ \/ /\ frames' = save_frame(frames, image_bytes[1])
          /\ camWrote' = camWrote + 1
          /\ camPc' = IF upload THEN "upload" ELSE "cleanup"
          /\ UNCHANGED camErr
       \/ /\ camPc' = "exited" /\ camErr' = TRUE
          /\ UNCHANGED <<frames, camWrote>>
    /\ UNCHANGED <<now, service, keep_hours, upload, image_bytes, cutoff, listing,
                   camSnap, camSweeps, senCfg, senVars, brVars>>

\* if image_bytes: path = save_frame(image_bytes)
CamSave ==
    /\ service = "lab-camera" /\ camPc = "save"
    /\ \/ /\ frames' = save_frame(frames, image_bytes[1])
          /\ camWrote' = camWrote + 1
          /\ camPc' = IF upload THEN "upload" ELSE "cleanup"
          /\ UNCHANGED camErr
       \/ /\ camPc' = "sleep" /\ camErr' = TRUE      \* makedirs or open raises
          /\ UNCHANGED <<frames, camWrote>>
    /\ UNCHANGED <<now, service, keep_hours, upload, image_bytes, cutoff, listing,
                   camSnap, camSweeps, senCfg, senVars, brVars>>

\* if upload: upload_frame(path, server) -- every failure is caught inside.
CamUpload ==
    /\ service = "lab-camera" /\ camPc = "upload"
    /\ camPc' = "cleanup"
    /\ UNCHANGED <<now, service, keep_hours, upload, frames, image_bytes, cutoff,
                   listing, camSnap, camSweeps, camWrote, camErr, senCfg, senVars,
                   brVars>>

\* cleanup_old_images: cutoff = time.time() - keep_hours * 3600; glob("*.jpg")
CamCleanup ==
    /\ service = "lab-camera" /\ camPc = "cleanup"
    /\ cutoff' = now - keep_hours
    /\ listing' = DOMAIN frames
    /\ camSnap' = [at |-> now, files |-> frames]
    /\ camSweeps' = camSweeps + 1
    /\ camPc' = "sweep"
    /\ UNCHANGED <<now, service, keep_hours, upload, frames, image_bytes, camWrote,
                   camErr, senCfg, senVars, brVars>>

\* for path in glob(...): if os.path.getmtime(path) < cutoff: os.remove(path)
CamSweepFile ==
    /\ service = "lab-camera" /\ camPc = "sweep" /\ listing # {}
    /\ \E path \in listing :
          \/ /\ frames' = IF IsOld(frames, path, cutoff)
                             THEN RemoveFile(frames, path) ELSE frames
             /\ listing' = listing \ {path}
             /\ UNCHANGED <<camPc, camErr>>
          \/ /\ IsOld(frames, path, cutoff)          \* os.remove raises
             /\ camPc' = "sleep" /\ camErr' = TRUE
             /\ UNCHANGED <<frames, listing>>
    /\ UNCHANGED <<now, service, keep_hours, upload, image_bytes, cutoff, camSnap,
                   camSweeps, camWrote, senCfg, senVars, brVars>>

\* cleanup_old_images returns.
CamSweepDone ==
    /\ service = "lab-camera" /\ camPc = "sweep" /\ listing = {}
    /\ camPc' = "sleep"
    /\ UNCHANGED <<now, service, keep_hours, upload, frames, image_bytes, cutoff,
                   listing, camSnap, camSweeps, camWrote, camErr, senCfg, senVars,
                   brVars>>

\* time.sleep(interval), then the next iteration.
CamSleep ==
    /\ service = "lab-camera" /\ camPc = "sleep"
    /\ camPc' = "capture"
    /\ image_bytes' = None /\ camSweeps' = 0 /\ camWrote' = 0 /\ camErr' = FALSE
    /\ listing' = {} /\ camSnap' = NoSnap /\ cutoff' = 0
    /\ UNCHANGED <<now, service, keep_hours, upload, frames, senCfg, senVars, brVars>>

CameraStep ==
    CamCapture \/ CamSave \/ CamUpload \/ CamCleanup \/ CamSweepFile \/ CamSweepDone
      \/ CamSleep

\* ----- sensor poller (sensor_reader.py) -----

I2C_BUS == 1

\* The text of a timestamp, and its parse (an empty cell does not parse).
isoformat(t) == Some(t)
ParsesAsIso(cell) == Len(cell) = 1
fromisoformat(cell) == cell[1]

\* The reading log: whether the file exists, and its lines.
NoFile == [exists |-> FALSE, lines |-> <<>>]
Header == [kind |-> "header"]
Row(t, p, q) == [kind |-> "row", timestamp |-> t, ph |-> p, temp_c |-> q]

\* Values the simulation draws, and values and failures an EZO sensor answers.
SimPhValues == {SimPhLow, SimPhHigh}
SimTempValues == {SimTempLow, SimTempHigh}
HwPhReads == {None, Some(PhDefaultMin - 1)}
HwTempReads == {None, Some(TempDefaultMax + 1)}

\* read_i2c_sensor: the parsed float, or None on any error or bad status.
read_i2c_sensor(answer) == answer

read_ph(b, sim, rnd, answer) ==
    IF sim THEN Some(rnd)
    ELSE IF b = None THEN None
    ELSE read_i2c_sensor(answer)

read_temperature(b, sim, rnd, answer) ==
    IF sim THEN Some(rnd)
    ELSE IF b = None THEN None
    ELSE read_i2c_sensor(answer)

Alert(sensor, value, range) ==
    [sensor |-> sensor, value |-> value, min |-> range[1], max |-> range[2]]

OutOfRangeInclusive(value, range) == value <= range[1] \/ value >= range[2]

\* if ph < ph_min or ph > ph_max
OutOfRange(value, range) == value < range[1] \/ value > range[2]

\* ph_min, ph_max = sensor_cfg["ph_range"] raises unless the list has two items;
\* it is reached only for a value that is not None.
CheckRaises(p, t, phr, tr) == (p # None /\ Len(phr) # 2) \/ (t # None /\ Len(tr) # 2)

\* check_alerts: the list of alert messages it returns.
check_alerts(p, t, phr, tr) ==
    (IF p # None /\ OutOfRange(p[1], phr) THEN <<Alert("pH", p[1], phr)>> ELSE <<>>)
      \o (IF t # None /\ OutOfRange(t[1], tr)
            THEN <<Alert("Temperature", t[1], tr)>> ELSE <<>>)

\* What becomes of requests.post in check_alerts.
DeliveryOutcomes(found) ==
    IF found = <<>> THEN {"none"} ELSE {"no_requests", "sent", "failed"}

write_headerAlways(file) == TRUE

\* write_header = not os.path.exists(CSV_PATH)
write_header(file) == ~file.exists

write_csvSkipsEmpty(file, t, p, q) ==
    IF p = None /\ q = None THEN file
    ELSE [exists |-> TRUE,
          lines |-> (IF write_header(file) THEN <<Header>> ELSE file.lines)
                      \o <<Row(t, p, q)>>]

\* write_csv: the header if the file is new, then the row; None is written "".
write_csv(file, t, p, q) ==
    [exists |-> TRUE,
     lines |-> (IF write_header(file) THEN <<Header>> ELSE file.lines)
                 \o <<Row(t, p, q)>>]

DataRows(file) == SelectSeq(file.lines, LAMBDA l : l.kind = "row")

\* main() up to the loop: the data source is chosen here.
SenStart ==
    /\ service = "lab-sensors" /\ senPc = "start"
    /\ IF HAS_I2C /\ ~cfgSimulate
         THEN \/ bus' = Some(I2C_BUS) /\ simulate' = cfgSimulate /\ busError' = FALSE
              \/ bus' = None /\ simulate' = TRUE /\ busError' = TRUE
         ELSE bus' = None /\ simulate' = cfgSimulate /\ busError' = FALSE
    /\ senPc' = "read"
    /\ UNCHANGED <<now, service, camVars, senCfg, ts, ph, temp, csv, alerts, delivery,
                   senRows, senErr, restarts, brVars>>

\* ts = now().isoformat(); ph = read_ph(...); temp = read_temperature(...)
SenRead ==
    /\ service = "lab-sensors" /\ senPc = "read"
    /\ ts' = isoformat(now)
    /\ \E rp \in SimPhValues, ap \in HwPhReads :
          ph' = IF ph_enabled THEN read_ph(bus, simulate, rp, ap) ELSE None
    /\ \E rt \in SimTempValues, at \in HwTempReads :
          temp' = IF temp_enabled THEN read_temperature(bus, simulate, rt, at) ELSE None
    /\ senPc' = "write"
    /\ UNCHANGED <<now, service, camVars, senCfg, simulate, bus, busError, csv, alerts,
                   delivery, senRows, senErr, restarts, brVars>>

\* write_csv(ts, ph, temp)
SenWrite ==
    /\ service = "lab-sensors" /\ senPc = "write"
    /\ \/ /\ Len(DataRows(csv)) < MaxRows
          /\ csv' = write_csv(csv, ts, ph, temp)
          /\ senRows' = senRows + 1
          /\ senPc' = "check"
          /\ UNCHANGED senErr
       \/ /\ senPc' = "sleep" /\ senErr' = TRUE      \* makedirs or open raises
          /\ UNCHANGED <<csv, senRows>>
    /\ UNCHANGED <<now, service, camVars, senCfg, simulate, bus, busError, ts, ph, temp,
                   alerts, delivery, restarts, brVars>>

\* check_alerts(ph, temp, config)
SenCheck ==
    /\ service = "lab-sensors" /\ senPc = "check"
    /\ IF CheckRaises(ph, temp, ph_range, temp_range)
         THEN senErr' = TRUE /\ UNCHANGED <<alerts, delivery>>
         ELSE /\ alerts' = check_alerts(ph, temp, ph_range, temp_range)
              /\ delivery' \in DeliveryOutcomes(alerts')
              /\ UNCHANGED senErr
    /\ senPc' = "sleep"
    /\ UNCHANGED <<now, service, camVars, senCfg, simulate, bus, busError, ts, ph, temp,
                   csv, senRows, restarts, brVars>>

\* time.sleep(interval), then the next iteration.
SenSleep ==
    /\ service = "lab-sensors" /\ senPc = "sleep"
    /\ senPc' = "read"
    /\ ts' = None /\ ph' = None /\ temp' = None /\ alerts' = <<>> /\ delivery' = "none"
    /\ senRows' = 0 /\ senErr' = FALSE
    /\ UNCHANGED <<now, service, camVars, senCfg, simulate, bus, busError, csv, restarts,
                   brVars>>

\* The unit is stopped and started again: a new process, the same files.
SenRestart ==
    /\ service = "lab-sensors" /\ senPc # "start" /\ restarts < MaxRestarts
    /\ restarts' = restarts + 1
    /\ senPc' = "start"
    /\ simulate' = FALSE /\ bus' = None /\ busError' = FALSE
    /\ ts' = None /\ ph' = None /\ temp' = None /\ alerts' = <<>> /\ delivery' = "none"
    /\ senRows' = 0 /\ senErr' = FALSE
    /\ UNCHANGED <<now, service, camVars, senCfg, csv, brVars>>

SensorStep == SenStart \/ SenRead \/ SenWrite \/ SenCheck \/ SenSleep

\* ----- bridge API (lab_bridge.py) -----

NoRequest == [endpoint |-> "none", hours |-> None, payload |-> "none", at |-> 0]
NoResponse == [status |-> 0, body |-> <<>>]
Response(status, body) == [status |-> status, body |-> body]

\* get_latest_image_path: sorted(glob("*.jpg"))[-1], or None.
get_latest_image_path(d) == IF DOMAIN d = {} THEN None ELSE Some(Max(DOMAIN d))

\* csv.DictReader: the first line names the fields, the others are the rows.
DictReader(file) == IF file.lines = <<>> THEN <<>> ELSE Tail(file.lines)
HasFields(file) == file.lines # <<>> /\ file.lines[1].kind = "header"

\* get_latest_sensor_reading: the last row, or None (no file, no row).
get_latest_sensor_reading(file) ==
    IF ~file.exists \/ DictReader(file) = <<>> THEN None
    ELSE Some(DictReader(file)[Len(DictReader(file))])

\* The loop of sensors_history: the rows that parse and are not before the cutoff.
RECURSIVE HistoryRows(_, _)
HistoryRows(rows, cut) ==
    IF rows = <<>> THEN <<>>
    ELSE LET row == Head(rows)
             rest == HistoryRows(Tail(rows), cut)
         IN IF ParsesAsIso(row.timestamp) /\ fromisoformat(row.timestamp) >= cut
              THEN <<row>> \o rest
              ELSE rest

\* sensors_history with ?hours=h (None: no such argument).
sensors_history(file, h) ==
    LET hours == IF h = None THEN DefaultHours ELSE h[1]
        cut == now - hours
    IN  IF cut < DatetimeMin THEN Response(500, <<>>)        \* OverflowError
        ELSE IF ~file.exists \/ ~HasFields(file) THEN Response(200, <<Header>>)
        ELSE Response(200, <<Header>> \o HistoryRows(DictReader(file), cut))

\* Bodies of POST /alert, and request.get_json(silent=True) of each.
Payloads == {"object_message", "object_no_message", "non_object", "empty_non_object",
             "not_json"}
get_json(payload) ==
    CASE payload = "object_message" -> [type |-> "object", truthy |-> TRUE,
                                         message |-> Some("test")]
      [] payload = "object_no_message" -> [type |-> "object", truthy |-> TRUE,
                                            message |-> None]
      [] payload = "non_object" -> [type |-> "list", truthy |-> TRUE, message |-> None]
      [] payload = "empty_non_object" -> [type |-> "list", truthy |-> FALSE,
                                           message |-> None]
      [] OTHER -> [type |-> "none", truthy |-> FALSE, message |-> None]

EmptyObject == [type |-> "object", truthy |-> FALSE, message |-> None]

AlertLine(t, message) == [timestamp |-> t, message |-> message]

HoursArgs == {None, Some(1), Some(StartTime + MaxTicks + 1)}

\* GET /status
Status ==
    /\ service = "lab-bridge" /\ brPc = "idle"
    /\ req' = [NoRequest EXCEPT !.endpoint = "status"]
    /\ resp' = Response(200, <<get_latest_image_path(frames) # None,
                               get_latest_sensor_reading(csv)>>)
    /\ brPc' = "responded"
    /\ UNCHANGED <<now, service, camVars, senCfg, senVars, qPath, alertLog>>

\* GET /camera/latest: path = get_latest_image_path()
CameraLatestList ==
    /\ service # "lab-sensors" /\ brPc = "idle"
    /\ req' = [NoRequest EXCEPT !.endpoint = "camera_latest"]
    /\ qPath' = get_latest_image_path(frames)
    /\ brPc' = "listed"
    /\ UNCHANGED <<now, service, camVars, senCfg, senVars, resp, alertLog>>

\* if path and os.path.exists(path): ... else 404
CameraLatestExists ==
    /\ brPc = "listed"
    /\ IF qPath # None /\ qPath[1] \in DOMAIN frames
         THEN brPc' = "checked" /\ UNCHANGED resp
         ELSE brPc' = "responded" /\ resp' = Response(404, <<>>)
    /\ UNCHANGED <<now, service, camVars, senCfg, senVars, req, qPath, alertLog>>

\* return send_file(path): FileNotFoundError when the file is gone by now.
CameraLatestSend ==
    /\ brPc = "checked"
    /\ resp' = IF qPath[1] \in DOMAIN frames
                 THEN Response(200, <<frames[qPath[1]].bytes>>)
                 ELSE Response(500, <<>>)
    /\ brPc' = "responded"
    /\ UNCHANGED <<now, service, camVars, senCfg, senVars, req, qPath, alertLog>>

\* GET /sensors/latest
SensorsLatest ==
    /\ service = "lab-bridge" /\ brPc = "idle"
    /\ req' = [NoRequest EXCEPT !.endpoint = "sensors_latest"]
    /\ resp' = IF get_latest_sensor_reading(csv) # None
                 THEN Response(200, get_latest_sensor_reading(csv))
                 ELSE Response(404, <<>>)
    /\ brPc' = "responded"
    /\ UNCHANGED <<now, service, camVars, senCfg, senVars, qPath, alertLog>>

\* GET /sensors/history?hours=N
SensorsHistory ==
    /\ service = "lab-bridge" /\ brPc = "idle"
    /\ \E h \in HoursArgs :
          /\ req' = [NoRequest EXCEPT !.endpoint = "sensors_history", !.hours = h,
                                          !.at = now]
          /\ resp' = sensors_history(csv, h)
    /\ brPc' = "responded"
    /\ UNCHANGED <<now, service, camVars, senCfg, senVars, qPath, alertLog>>

\* POST /alert
ReceiveAlert ==
    /\ service = "lab-bridge" /\ brPc = "idle"
    /\ \E payload \in Payloads :
          LET parsed == get_json(payload)
              data == IF parsed.truthy THEN parsed ELSE EmptyObject
              message == IF data.message # None THEN data.message[1]
                         ELSE "Unknown alert"
          IN  /\ req' = [NoRequest EXCEPT !.endpoint = "alert", !.payload = payload,
                                              !.at = now]
              /\ IF data.type # "object"
                   THEN /\ resp' = Response(500, <<>>)      \* AttributeError
                        /\ UNCHANGED alertLog
                   ELSE /\ Len(alertLog) < MaxAlertLines
                        /\ alertLog' = Append(alertLog, AlertLine(isoformat(now), message))
                        /\ resp' = Response(200, <<"received", message>>)
    /\ brPc' = "responded"
    /\ UNCHANGED <<now, service, camVars, senCfg, senVars, qPath>>

\* The response is sent; the bridge waits for the next request.
BridgeReturn ==
    /\ brPc = "responded"
    /\ brPc' = "idle" /\ req' = NoRequest /\ resp' = NoResponse /\ qPath' = None
    /\ UNCHANGED <<now, service, camVars, senCfg, senVars, alertLog>>

BridgeStep ==
    Status \/ CameraLatestList \/ CameraLatestExists \/ CameraLatestSend
      \/ SensorsLatest \/ SensorsHistory \/ ReceiveAlert \/ BridgeReturn

\* ----- the system -----

KeepHoursDefault == 24

\* *.jpg files the camera directory may hold when the services start: none, or two
\* whose names and modification times disagree (an old name touched lately, and
\* a late name on an old file).
InitDirs ==
    {EmptyDir,
     WriteFile(WriteFile(EmptyDir, StartTime - 1, File(StartTime, 0)),
               StartTime + MaxTicks + 1, File(StartTime - 1, 0))}

\* Reading logs earlier runs of the sensor poller may have left: none, or one of
\* one or two rows.
LogTimes == {StartTime - 2, StartTime}
LogRows ==
    {<<isoformat(t), p, Some(SimTempLow)>> : t \in LogTimes, p \in {None, Some(SimPhLow)}}
InitLogs ==
    {NoFile}
      \cup {write_csv(NoFile, r[1], r[2], r[3]) : r \in LogRows}
      \cup {write_csv(write_csv(NoFile, w[1][1], w[1][2], w[1][3]),
                       w[2][1], w[2][2], w[2][3]) :
               w \in {x \in LogRows \X LogRows : x[2][1][1] >= x[1][1][1]}}

Init ==
    /\ now = StartTime
    /\ service \in {"lab-camera", "lab-sensors", "lab-bridge"}
    /\ IF service = "lab-camera"
         THEN keep_hours \in 0..MaxKeepHours /\ upload \in BOOLEAN
         ELSE keep_hours = KeepHoursDefault /\ upload = FALSE
    /\ IF service = "lab-sensors" THEN frames = EmptyDir ELSE frames \in InitDirs
    /\ camPc = "capture" /\ image_bytes = None /\ cutoff = 0 /\ listing = {}
    /\ camSnap = NoSnap /\ camSweeps = 0 /\ camWrote = 0 /\ camErr = FALSE
    /\ IF service = "lab-sensors"
         THEN /\ HAS_I2C \in BOOLEAN /\ cfgSimulate \in BOOLEAN
              /\ ph_enabled \in BOOLEAN /\ temp_enabled \in BOOLEAN
         ELSE /\ HAS_I2C = FALSE /\ cfgSimulate = FALSE
              /\ ph_enabled = TRUE /\ temp_enabled = TRUE
    /\ IF service = "lab-sensors"
         THEN ph_range \in {<<PhDefaultMin, PhDefaultMax>>, <<PhDefaultMin>>}
         ELSE ph_range = <<PhDefaultMin, PhDefaultMax>>
    /\ temp_range = <<TempDefaultMin, TempDefaultMax>>
    /\ senPc = "start" /\ simulate = FALSE /\ bus = None /\ busError = FALSE
    /\ ts = None /\ ph = None /\ temp = None
    /\ IF service = "lab-bridge" THEN csv \in InitLogs ELSE csv = NoFile
    /\ alerts = <<>> /\ delivery = "none" /\ senRows = 0 /\ senErr = FALSE
    /\ restarts = 0
    /\ brPc = "idle" /\ req = NoRequest /\ resp = NoResponse /\ qPath = None
    /\ alertLog = <<>>

Next == Tick \/ CameraStep \/ SensorStep \/ SenRestart \/ BridgeStep

Spec == Init /\ [][Next]_vars

\* The pollers alone, each scheduled as long as it can take a step: a poller is
\* one sequential process whose calls (capture, file I/O, HTTP with a timeout,
\* sleep) all return or raise.
NextPollers == Tick \/ CameraStep \/ SensorStep \/ SenRestart

LiveSpec ==
    Init /\ [][NextPollers]_vars /\ WF_vars(CameraStep) /\ WF_vars(SensorStep)

\* check_alerts on its own: the sensor poller about to check a reading, for
\* readings around the bounds of the configured ranges.
ExampleRange == <<12, 16>>          \* ph_range = [6.0, 8.0]
Around(r) == {r[1] - 1, r[1], r[1] + 2, r[2], r[2] + 2}
Readings(r) == {None} \cup {Some(v) : v \in Around(r)}

InitAlerts ==
    /\ now = StartTime /\ service = "lab-sensors"
    /\ keep_hours = KeepHoursDefault /\ upload = FALSE /\ frames = EmptyDir
    /\ camPc = "capture" /\ image_bytes = None /\ cutoff = 0 /\ listing = {}
    /\ camSnap = NoSnap /\ camSweeps = 0 /\ camWrote = 0 /\ camErr = FALSE
    /\ HAS_I2C = TRUE /\ cfgSimulate = FALSE
    /\ ph_enabled = TRUE /\ temp_enabled = TRUE
    /\ ph_range \in {<<PhDefaultMin, PhDefaultMax>>, ExampleRange}
    /\ temp_range = <<TempDefaultMin, TempDefaultMax>>
    /\ senPc = "check" /\ simulate = FALSE /\ bus = Some(I2C_BUS) /\ busError = FALSE
    /\ ts = isoformat(now)
    /\ ph \in Readings(ph_range) /\ temp \in Readings(temp_range)
    /\ csv = write_csv(NoFile, ts, ph, temp)
    /\ alerts = <<>> /\ delivery = "none" /\ senRows = 1 /\ senErr = FALSE
    /\ restarts = 0
    /\ brPc = "idle" /\ req = NoRequest /\ resp = NoResponse /\ qPath = None
    /\ alertLog = <<>>

SpecAlerts == InitAlerts /\ [][SenCheck]_vars

\* ----- C1: the retention sweep -----

\* cleanup_old_images has returned in this iteration of the camera loop.
SweepReturned == camPc = "sleep" /\ camSweeps = 1 /\ ~camErr

\* C1: once cleanup_old_images(keep_hours) has returned, of the *.jpg files it
\* found, none whose modification time is older than (time of the call -
\* keep_hours) remains, every other one remains as it was, and no file was
\* added; the time encoded in the name plays no part.
C1_SweepPostcondition ==
    SweepReturned =>
        /\ DOMAIN frames \subseteq DOMAIN camSnap.files
        /\ \A n \in DOMAIN camSnap.files :
              IF camSnap.files[n].mtime < camSnap.at - keep_hours
                THEN n \notin DOMAIN frames
                ELSE n \in DOMAIN frames /\ frames[n] = camSnap.files[n]

\* A sweep that removed a file whose name is not before the cutoff and kept one
\* whose name is before it.
C1_Witness ==
    /\ SweepReturned
    /\ \E n \in DOMAIN camSnap.files :
          n >= camSnap.at - keep_hours /\ n \notin DOMAIN frames
    /\ \E n \in DOMAIN camSnap.files :
          n < camSnap.at - keep_hours /\ n \in DOMAIN frames

\* ----- C2: the header of the reading log -----

HardwareUnavailable == ~HAS_I2C \/ busError

\* C3: when the I2C library is absent or the bus cannot be opened, and simulate
\* is not set, the poller is in simulation mode throughout its loop and every
\* enabled sensor has a value in every iteration.
C3_FallbackToSimulation ==
    (service = "lab-sensors" /\ senPc # "start" /\ ~cfgSimulate
       /\ HardwareUnavailable) =>
        /\ simulate
        /\ senPc \in {"write", "check", "sleep"} =>
              /\ ph_enabled => ph # None
              /\ temp_enabled => temp # None

\* ----- C4: the history query -----

\* The rows of the log whose timestamp is at or after the cutoff, in log order.
RowsSince(file, cut) ==
    SelectSeq(DataRows(file), LAMBDA r : r.timestamp # <<>> /\ r.timestamp[1] >= cut)

\* C4: GET /sensors/history answers 200 with the header line followed by exactly
\* the logged rows whose timestamp is >= (time of the request - W), W being the
\* hours argument or 24; the header alone when there is none or no log.
C4_HistoryQuery ==
    (brPc = "responded" /\ req.endpoint = "sensors_history") =>
        LET W == IF req.hours = None THEN DefaultHours ELSE req.hours[1]
        IN  /\ resp.status = 200
            /\ resp.body = <<Header>> \o RowsSince(csv, req.at - W)

\* ----- C6: the alert endpoint -----

\* C6: every POST /alert is answered 200 with the message echoed (the default
\* message when the body gives none) and has appended the line
\* <timestamp> | <message> to the alert log.
C6_AlertAlwaysReceived ==
    (brPc = "responded" /\ req.endpoint = "alert") =>
        LET message == IF req.payload = "object_message" THEN "test"
                       ELSE "Unknown alert"
        IN  /\ resp.status = 200
            /\ resp.body = <<"received", message>>
            /\ alertLog # <<>>
            /\ alertLog[Len(alertLog)] = AlertLine(isoformat(req.at), message)

\* ----- C7: the latest frame -----

\* C7: GET /camera/latest ends with the bytes of a frame (200) or with the
\* not-found result (404), whatever the camera poller does meanwhile.
C7_LatestFrameOutcome ==
    (brPc = "responded" /\ req.endpoint = "camera_latest") =>
        \/ resp.status = 404 /\ resp.body = <<>>
        \/ resp.status = 200 /\ Len(resp.body) = 1

\* ----- C8: the sweep in every iteration -----

\* C8: an iteration of the camera loop that has reached its sleep has run the
\* retention sweep exactly once, however the capture attempt ended.
C8_SweepEveryIteration == camPc = "sleep" => camSweeps = 1

\* ----- C9: persistence after a failed acquisition -----

\* Every enabled sensor read of this iteration returned no value.
AcquisitionFailed == (ph_enabled \/ temp_enabled) /\ ph = None /\ temp = None

\* The camera part of C9: an iteration whose capture yielded no image writes no
\* file and goes on to the sweep.
C9_CameraSkips ==
    /\ []((camPc \in {"cleanup", "sweep", "sleep"} /\ image_bytes = None) =>
             camWrote = 0)
    /\ [][(camPc = "capture" /\ camPc' # camPc /\ image_bytes' = None /\ ~camErr') =>
             (camPc' = "cleanup" /\ frames' = frames)]_vars

\* C9 as claimed: the camera part, and an iteration of the sensor loop in which
\* every enabled sensor read returned no value appends no row to the log.
C9_SkipsPersistence ==
    /\ (camPc \in {"cleanup", "sweep", "sleep"} /\ image_bytes = None) => camWrote = 0
    /\ (senPc \in {"check", "sleep"} /\ AcquisitionFailed) => senRows = 0

\* C9 as amended: the camera part, and an iteration of the sensor loop in which
\* every enabled sensor read returned no value still calls write_csv, which
\* appends one row of the timestamp and two empty fields; the loop then goes on
\* to the threshold check and the sleep.
C9_EmptyRowWritten ==
    /\ C9_CameraSkips
    /\ [][(senPc = "read" /\ senPc' \notin {senPc, "start"}) => senPc' = "write"]_vars
    /\ [][(senPc = "write" /\ senPc' = "check" /\ AcquisitionFailed) =>
             /\ DataRows(csv') = Append(DataRows(csv), Row(ts, None, None))
             /\ Len(csv'.lines) = Len(csv.lines) + (IF csv.exists THEN 1 ELSE 2)]_vars
    /\ [][(senPc = "check" /\ senPc' \notin {senPc, "start"}) => senPc' = "sleep"]_vars

\* The sensor case has happened: every enabled read failed on opened hardware,
\* and the iteration left a row of empty fields in the log.
C9_Witness ==
    /\ senPc = "sleep" /\ AcquisitionFailed /\ senRows = 1 /\ HAS_I2C
    /\ csv.lines[Len(csv.lines)] = Row(ts, None, None)

\* ----- C5: the threshold check -----

InsideRange(v, r) == r[1] <= v /\ v <= r[2]

\* The alert the claim expects for a reading, if any.
ExpectedAlert(sensor, reading, r) ==
    IF reading # None /\ ~InsideRange(reading[1], r)
      THEN {[sensor |-> sensor, value |-> reading[1], min |-> r[1], max |-> r[2]]}
      ELSE {}

\* C5: check_alerts returns exactly one alert, carrying the value and both
\* bounds, for each present value outside its closed range, and none for a value
\* inside it or absent; and whatever becomes of the delivery, the call returns
\* this list without raising.
C5_ThresholdCheck ==
    (senPc = "sleep" /\ Len(ph_range) = 2 /\ Len(temp_range) = 2) =>
        LET expected == ExpectedAlert("pH", ph, ph_range)
                          \cup ExpectedAlert("Temperature", temp, temp_range)
        IN  /\ ~senErr
            /\ Len(alerts) = Cardinality(expected)
            /\ {alerts[i] : i \in 1..Len(alerts)} = expected

\* ph_range = [6.0, 8.0] and ph = 9.0: one alert, and the delivery failed.
C5_Witness ==
    /\ senPc = "sleep" /\ delivery = "failed"
    /\ ph_range = ExampleRange /\ ph = Some(ExampleRange[2] + 2)
    /\ temp = Some(TempDefaultMax)
    /\ Len(alerts) = 1 /\ alerts[1].value = ExampleRange[2] + 2

\* ----- C10: the loops never end -----

\* C10: in either poller every failure inside an iteration leads to the sleep
\* of that iteration, the sleep is followed by the next iteration and an
\* iteration starts only from the sleep (or from the start of the process), and
\* the poller attempts an acquisition infinitely often.
C10_PollerLiveness ==
    /\ [][(camErr' /\ ~camErr) => camPc' = "sleep"]_vars
    /\ [][(camPc = "sleep" /\ camPc' # camPc) => camPc' = "capture"]_vars
    /\ [][(camPc' = "capture" /\ camPc # camPc') => camPc = "sleep"]_vars
    /\ [][(senErr' /\ ~senErr) => senPc' = "sleep"]_vars
    /\ [][(senPc = "sleep" /\ senPc' \notin {senPc, "start"}) => senPc' = "read"]_vars
    /\ [][(senPc' = "read" /\ senPc # senPc') => senPc \in {"sleep", "start"}]_vars
    /\ (service = "lab-camera") => []<><<CamCapture>>_vars
    /\ (service = "lab-sensors") => []<><<SenRead>>_vars

\* save_frame has raised after an earlier iteration saved a frame: the poller is
\* at the sleep of the failed iteration.
C10_Witness ==
    /\ camPc = "sleep" /\ camErr /\ image_bytes # None /\ camWrote = 0
    /\ \E n \in DOMAIN frames : frames[n].bytes # 0

====
